---- MODULE Spec2Model ----
(***************************************************************************)
(* Greenhouse telemetry dashboards (INVERNADERO).                          *)
(*                                                                         *)
(* The repository holds four dashboard components that differ in how the   *)
(* MQTT message handler keeps the chart windows:                           *)
(*   "simple"  src/app/page.tsx and src/unnamed/part_003                   *)
(*             (one window, slice-based append, index time labels)         *)
(*   "mid"     src/unnamed/part_002, GreenhouseMonitor (line 1843)         *)
(*             (two windows, slice-based append, index time labels)        *)
(*   "full"    src/greenhouse-monitor-web/app/page.tsx                     *)
(*             (four windows, shift/push append, clock labels, log)        *)
(*   "cfg"     src/unnamed/part_002, GreenSenseMonitor (line 104)          *)
(*             (five windows, configurable length, clock labels, log)      *)
(* A behaviour of the model is a session of one of them.                   *)
(***************************************************************************)
EXTENDS Integers, Sequences, FiniteSets, TLC

VARIABLES
    variant,          \* which component is mounted
    buildMode,        \* "production", or "development" (React StrictMode on)
    wire,             \* what the topic carries: "records", or "any" JSON text
    mounted,          \* the component is mounted: its effect cleanup has not run
    sensorData,       \* useState sensorData: the latest value of every key
    sensorHistory,    \* the chart windows, one per metric
    timeHistory,      \* useState timeHistory: the shared time labels
    dataLog,          \* dataLogRef.current: the session log
    status,           \* useState status / statusMessage
    isConnected,      \* useState isConnected
    isLoading,        \* useState isLoading: the loading screen is shown
    loadingTimeouts,  \* the loading timers not fired yet
    showExportPanel,  \* useState showExportPanel
    download,         \* the file the last export handed to the browser
    downloads,        \* number of files handed to the browser so far
    alerts,           \* number of alert() notices shown so far
    chartTimespan,    \* useState chartTimespan (cfg)
    autoRefresh,      \* useState autoRefresh (cfg)
    clients,          \* every transport client created so far
    clientRef,        \* clientRef.current: index into clients, 0 for null
    pendingStarts,    \* delayed starts scheduled by reconnect() (setTimeout 1000)
    reconnectTimeout, \* reconnectTimeoutRef.current (cfg)
    timers,           \* the reconnect timers of the offline handler not fired yet (cfg)
    now,              \* the wall clock, in seconds
    settingChanges,   \* number of changes of a setting so far
    msgCount,         \* number of message-handler invocations so far
    awaiting,         \* history: an offline event with auto-reconnect on, no connectMQTT() since
    ingested,         \* history: numeric values handled per metric, in arrival order
    histSrc,          \* history: for every window entry, the message it came from
    timeSrc,          \* history: for every time label, its message and clock reading
    lastMsg           \* history: the payload the message handler ran on last

vars == <<variant, buildMode, wire, mounted, sensorData, sensorHistory, timeHistory, dataLog,
          status, isConnected, isLoading, loadingTimeouts, showExportPanel, download,
          downloads, alerts, chartTimespan, autoRefresh, clients, clientRef,
          pendingStarts, reconnectTimeout, timers, now, settingChanges, msgCount, ingested,
          awaiting, histSrc, timeSrc, lastMsg>>

----------------------------------------------------------------------------
(* Bounds of the model *)

\* TIEMPO_MAX is 30 in every component; the model runs the same code with a
\* short window so that eviction happens within a few messages.
TIEMPO_MAX == 2

\* The length of a session: every handled message, every second that passes,
\* every change of a setting and every export request costs 1, every
\* reconnect (a new transport client, scheduled or created) costs StartCost.
MaxWork == 4

----------------------------------------------------------------------------
(* JSON values *)

Num(n) == [t |-> "number", v |-> n]
Str(n) == [t |-> "string", v |-> n]           \* a string of n lines
Null == [t |-> "object", v |-> 0]           \* typeof null is "object"
Undefined == [t |-> "undefined", v |-> 0]

TypeOf(x) == x.t

SimpleKeys == {"humedad", "temperatura", "ph", "calidad_agua"}
FullKeys == {"soil_moisture", "temperature", "humidity", "tds", "water_level", "timestamp"}
IndexKeys == {"0"}                          \* the own keys of a one-element array
Keys == SimpleKeys \cup FullKeys \cup IndexKeys

SimpleMetrics == {"humedad"}
MidMetrics == {"humedad", "temperatura"}
FullMetrics == {"soil_moisture", "temperature", "humidity", "tds"}
CfgMetrics == FullMetrics \cup {"water_level"}
Metrics == MidMetrics \cup CfgMetrics

\* The chart windows the mounted component keeps.
Charted ==
    CASE variant = "simple" -> SimpleMetrics
      [] variant = "mid" -> MidMetrics
      [] variant = "full" -> FullMetrics
      [] variant = "cfg" -> CfgMetrics

EmptyObject == [k \in Keys |-> Undefined]

\* The object with the given <<key, value>> members.
Obj(members) ==
    [k \in Keys |-> IF \E m \in members : m[1] = k
                    THEN (CHOOSE m \in members : m[1] = k)[2]
                    ELSE Undefined]

HasKey(o, k) == o[k] # Undefined

\* Mutant of Spread: the parsed record replaces the latest values.
SpreadReplaces(prev, data) == data

\* { ...prev, ...data }
Spread(prev, data) == [k \in Keys |-> IF HasKey(data, k) THEN data[k] ELSE prev[k]]

\* A message payload: text that JSON.parse rejects, or the text of a JSON
\* value. kind is what JSON.parse returns; obj is what reading the properties
\* of that value gives and what spreading it copies: the members of an
\* object, the elements of an array, nothing for a number and for null.
Invalid == [kind |-> "invalid", obj |-> EmptyObject]
NoMessage == [kind |-> "none", obj |-> EmptyObject]
Object(members) == [kind |-> "object", obj |-> Obj(members)]
NumberPayload == [kind |-> "number", obj |-> EmptyObject]         \* 5
NullPayload == [kind |-> "null", obj |-> EmptyObject]             \* null
ArrayPayload == [kind |-> "array", obj |-> Obj({<<"0", Num(1)>>})] \* [1]

NonObjectKinds == {"number", "null", "array"}
NonObjectPayloads == {NumberPayload, NullPayload, ArrayPayload}

\* JSON.parse(text) throws.
ParseThrows(p) == p.kind = "invalid"

\* Reading a property of the parsed value throws (data.humedad of null).
ReadThrows(p) == p.kind = "null"

\* Assigning a property of the parsed value throws (data.timestamp = ... of
\* null, and of a primitive in module code, which is strict).
WriteThrows(p) == p.kind \in {"null", "number"}

SimplePayloads ==
    { Object({<<"humedad", Num(1)>>}),
      Object({<<"humedad", Num(2)>>, <<"temperatura", Num(1)>>}),
      Object({<<"temperatura", Num(2)>>}),
      Object({<<"humedad", Str(1)>>, <<"temperatura", Null>>}),
      Object({<<"ph", Num(6)>>}),
      Invalid }

FullPayloads ==
    { Object({<<"soil_moisture", Num(1)>>}),
      Object({<<"soil_moisture", Num(2)>>, <<"temperature", Num(1)>>}),
      Object({<<"temperature", Num(2)>>, <<"timestamp", Num(7)>>}),
      Object({<<"soil_moisture", Str(1)>>, <<"temperature", Null>>}),
      Object({<<"water_level", Num(512)>>}),
      Invalid }

\* A record whose value for a metric is a string of two lines.
TwoLinePayload == Object({<<"humidity", Str(2)>>})

\* The payloads the topic carries: the texts of records and text that is not
\* JSON, and on a topic that carries any JSON text also the texts of JSON
\* values that are not objects and of a record with a string of two lines.
SimpleWire ==
    SimplePayloads \cup (IF wire = "any" THEN NonObjectPayloads ELSE {})
FullWire ==
    FullPayloads \cup (IF wire = "any" THEN NonObjectPayloads \cup {TwoLinePayload} ELSE {})

----------------------------------------------------------------------------
(* Arrays *)

Max(a, b) == IF a > b THEN a ELSE b
Min(a, b) == IF a < b THEN a ELSE b

\* Array.prototype.slice(start): a negative start counts from the end, and
\* slice(-0) is slice(0), the whole array.
Slice(arr, start) ==
    LET from == IF start < 0 THEN Max(Len(arr) + start, 0) ELSE Min(start, Len(arr))
    IN  SubSeq(arr, from + 1, Len(arr))

\* [...prev.slice(-TIEMPO_MAX + 1), x]
SliceAppend(prev, x) == Append(Slice(prev, 1 - TIEMPO_MAX), x)

\* Mutant of ShiftPush: the new entry is put first (unshift for push).
ShiftUnshift(arr, x, n) == <<x>> \o (IF Len(arr) >= n THEN Tail(arr) ELSE arr)

\* if (arr.length >= n) arr.shift(); arr.push(x)
ShiftPush(arr, x, n) == Append(IF Len(arr) >= n THEN Tail(arr) ELSE arr, x)

\* The last n elements of s (all of s when it has fewer).
LastN(s, n) == SubSeq(s, Max(Len(s) - n, 0) + 1, Len(s))

----------------------------------------------------------------------------
(* Groups of variables *)

fixedVars == <<variant, buildMode, wire>>
storeVars == <<sensorData, sensorHistory, timeHistory, dataLog>>
ghostVars == <<ingested, histSrc, timeSrc>>
msgVars == <<msgCount, lastMsg>>
settingVars == <<chartTimespan, autoRefresh, settingChanges>>
exportVars == <<showExportPanel, download, downloads, alerts>>
connVars == <<clients, clientRef, pendingStarts, reconnectTimeout, timers>>

----------------------------------------------------------------------------
(* Transport clients *)

\* st: "connecting" (the first attempt, or the library retrying after the
\* connection dropped), "connected" (and subscribed) or "ended". handler: "initial" for the handlers the effect (or
\* connectMQTT) registers, "reconnect" for those reconnect() registers.
\* span, auto: the chartTimespan and autoRefresh of the render whose closures
\* the client's handlers are. sub: subscribe(MQTT_TOPIC) was called on the
\* client; the library subscribes again by itself after it reconnects.
\* The handlers of a client are closures of the render r that created it:
\* they read the chartTimespan, autoRefresh, isLoading and isConnected of r.
Client(h, r) ==
    [st |-> "connecting", handler |-> h, sub |-> FALSE, span |-> r.span, auto |-> r.auto,
     loading |-> r.loading, connected |-> r.connected]

\* The first render: the initial values of the useState calls.
FirstRender == [span |-> TIEMPO_MAX, auto |-> TRUE, loading |-> TRUE, connected |-> FALSE]

\* The handlers that reconnect() registers in the mid and full components
\* read no state.
NoClosure == [span |-> TIEMPO_MAX, auto |-> FALSE, loading |-> FALSE, connected |-> FALSE]

\* The render whose closures the handlers of client c are.
RenderOf(c) ==
    [span |-> clients[c].span, auto |-> clients[c].auto,
     loading |-> clients[c].loading, connected |-> clients[c].connected]

\* An ended client delivers nothing more; what it captured no longer matters.
Ended ==
    [st |-> "ended", handler |-> "none", sub |-> FALSE, span |-> 0, auto |-> FALSE,
     loading |-> FALSE, connected |-> FALSE]

Live(c) == clients[c].st # "ended"

\* clientRef.current?.end()
EndCurrent == IF clientRef = 0 THEN clients ELSE [clients EXCEPT ![clientRef] = Ended]

\* clientRef.current?.subscribe(MQTT_TOPIC), with cs the clients: the call goes
\* to the client clientRef holds, whichever client emitted the event, and an
\* ended client takes no subscription.
Subscribe(cs) ==
    IF clientRef = 0 \/ cs[clientRef].st = "ended"
    THEN cs
    ELSE [cs EXCEPT ![clientRef].sub = TRUE]

\* The connect event of client c has been emitted.
Connected(c) == [clients EXCEPT ![c].st = "connected"]

\* A connected client that has subscribed receives the messages of the topic.
Receives(c) == clients[c].st = "connected" /\ clients[c].sub

\* reconnectTimeoutRef.current is null
NoTimer == [pending |-> FALSE]

\* React StrictMode (development) runs the effect, its cleanup and the effect
\* again. Every cleanup but the one of the mid component in development ends
\* the first client; that one only clears its interval, so the first client
\* stays open beside the second.
InitialClients == IF variant = "mid" /\ buildMode = "development" THEN 2 ELSE 1

\* The loading timers of the mount effect. The simple component has none and
\* the mid component sets none in development (the effect returns before).
\* The cleanup of the full component clears its timer; connectMQTT returns
\* the function that would clear its timer to a caller that drops it, so in
\* development the timers of both runs of the effect stay.
InitialLoadingTimeouts ==
    CASE variant = "simple" -> 0
      [] variant = "mid" -> IF buildMode = "development" THEN 0 ELSE 1
      [] variant = "full" -> 1
      [] variant = "cfg" -> IF buildMode = "development" THEN 2 ELSE 1

\* The delay of the loading timer (10 s in the full and cfg components,
\* 1.5 s in the mid component), in seconds of the model's clock.
LoadingDelay == 1

\* The loading timer set in render r at clock reading t: when it is due, and
\* what its callback reads when it fires.
LoadingClosure(r, t) ==
    [loading |-> r.loading, connected |-> r.connected, due |-> t + LoadingDelay]

\* No file has been produced.
NoFile == [format |-> "none", header |-> << >>, body |-> << >>]

StartCost == 2

\* The session starts one second before midnight.
ClockStart == 86399

Work ==
    msgCount + (now - ClockStart) + settingChanges + downloads + alerts
    + Len(timers)
    + StartCost * (Len(clients) - InitialClients + Len(pendingStarts))

CanHandle == Work + 1 <= MaxWork
CanStart == Work + StartCost <= MaxWork

\* A pending reconnect timer has been charged 1; the reconnect it starts
\* costs StartCost.
TimerCanFire == Work - 1 + StartCost <= MaxWork

----------------------------------------------------------------------------
(* Initial state: the component is mounted and its effect has run *)

EmptyHistory == [m \in Metrics |-> << >>]

Variants == {"simple", "mid", "full", "cfg"}

\* The mounted component, whatever the topic carries.
Mounted ==
    /\ variant \in Variants
    /\ buildMode \in {"production", "development"}
    /\ mounted = TRUE
    /\ sensorData = EmptyObject
    /\ sensorHistory = EmptyHistory
    /\ timeHistory = << >>
    /\ dataLog = << >>
    /\ status = "Esperando conexion..."
    /\ isConnected = FALSE
    /\ isLoading = (variant # "simple")
    /\ loadingTimeouts = [i \in 1..InitialLoadingTimeouts |-> LoadingClosure(FirstRender, ClockStart)]
    /\ showExportPanel = FALSE
    /\ download = NoFile
    /\ downloads = 0
    /\ alerts = 0
    /\ chartTimespan = TIEMPO_MAX
    /\ autoRefresh = TRUE
    /\ clients = [i \in 1..InitialClients |-> Client("initial", FirstRender)]
    /\ clientRef = InitialClients
    /\ pendingStarts = << >>
    /\ reconnectTimeout = NoTimer
    /\ timers = << >>
    /\ now = ClockStart
    /\ msgCount = 0
    /\ awaiting = FALSE
    /\ settingChanges = 0
    /\ ingested = EmptyHistory
    /\ histSrc = EmptyHistory
    /\ timeSrc = << >>
    /\ lastMsg = NoMessage

\* The topic carries the records of the sensor node (and text that is not JSON).
Init == wire = "records" /\ Mounted

\* The topic carries any JSON text.
InitAnyJson == wire = "any" /\ Mounted

\* The history image of a time label: the message it came from and the clock
\* reading it was made from.
Mark == [msg |-> msgCount', at |-> now]

\* Mutant of NumericMetrics: the typeof test is left out.
PresentMetrics(data) == {m \in Charted : HasKey(data, m)}

\* typeof data.<metric> === "number": the charted metrics the message has a
\* number for.
NumericMetrics(data) == {m \in Charted : TypeOf(data[m]) = "number"}

\* The history of the numeric values handled for each charted metric.
Ingest(data) ==
    [m \in Metrics |-> IF m \in Charted /\ TypeOf(data[m]) = "number"
                       THEN Append(ingested[m], data[m].v)
                       ELSE ingested[m]]

----------------------------------------------------------------------------
(* src/app/page.tsx and src/unnamed/part_003 *)

\* client.on("message", ...)
MessageSimple(c, p) ==
    /\ mounted
    /\ variant = "simple"
    /\ Receives(c)
    /\ CanHandle
    /\ msgCount' = msgCount + 1
    /\ lastMsg' = p
    /\ IF ParseThrows(p) \/ ReadThrows(p)
       THEN /\ status' = "Error al procesar datos"
            /\ sensorData' = IF ParseThrows(p) THEN sensorData
                              ELSE Spread(sensorData, p.obj)
            /\ UNCHANGED <<sensorHistory, timeHistory, ghostVars>>
       ELSE LET data == p.obj IN
            /\ sensorData' = Spread(sensorData, data)
            /\ IF "humedad" \in NumericMetrics(data)
               THEN /\ sensorHistory' = [sensorHistory EXCEPT
                            !["humedad"] = SliceAppend(@, data["humedad"].v)]
                    /\ timeHistory' = SliceAppend(timeHistory, Len(timeHistory))
                    /\ histSrc' = [histSrc EXCEPT !["humedad"] = SliceAppend(@, msgCount')]
                    /\ timeSrc' = SliceAppend(timeSrc, Mark)
               ELSE UNCHANGED <<sensorHistory, timeHistory, histSrc, timeSrc>>
            /\ ingested' = Ingest(data)
            /\ UNCHANGED status
    /\ UNCHANGED <<fixedVars, mounted, awaiting, exportVars, isLoading, loadingTimeouts, dataLog, isConnected, settingVars, connVars, now>>

\* client.on("connect", ...)
ConnectSimple(c) ==
    /\ variant = "simple"
    /\ clients[c].st = "connecting"
    /\ clients' = Subscribe(Connected(c))
    /\ status' = "Conectado a MQTT"
    /\ UNCHANGED <<fixedVars, mounted, awaiting, exportVars, isLoading, loadingTimeouts, storeVars, ghostVars, isConnected, settingVars, clientRef,
                   pendingStarts, reconnectTimeout, timers, now, msgVars>>

\* The connection drops; the component registers no handler for it and the
\* library retries on its own.
OfflineSimple(c) ==
    /\ variant = "simple"
    /\ clients[c].st = "connected"
    /\ clients' = [clients EXCEPT ![c].st = "connecting"]
    /\ UNCHANGED <<fixedVars, mounted, awaiting, exportVars, isLoading, loadingTimeouts, storeVars, ghostVars, status, isConnected, settingVars,
                   clientRef, pendingStarts, reconnectTimeout, timers, now, msgVars>>

NextSimple ==
    \/ \E c \in DOMAIN clients : \E p \in SimpleWire : MessageSimple(c, p)
    \/ \E c \in DOMAIN clients : ConnectSimple(c)
    \/ \E c \in DOMAIN clients : OfflineSimple(c)

----------------------------------------------------------------------------
(* src/unnamed/part_002, GreenhouseMonitor *)

\* clientRef.current.on("message", ...)
MessageMid(c, p) ==
    /\ mounted
    /\ variant = "mid"
    /\ Receives(c)
    /\ clients[c].handler = "initial"
    /\ CanHandle
    /\ msgCount' = msgCount + 1
    /\ lastMsg' = p
    /\ IF ParseThrows(p) \/ ReadThrows(p)
       THEN /\ status' = "Error al procesar datos"
            /\ sensorData' = IF ParseThrows(p) THEN sensorData
                              ELSE Spread(sensorData, p.obj)
            /\ UNCHANGED <<sensorHistory, timeHistory, ghostVars>>
       ELSE LET data == p.obj
                hum == "humedad" \in NumericMetrics(data)
                tem == "temperatura" \in NumericMetrics(data)
            IN
            /\ sensorData' = Spread(sensorData, data)
            /\ sensorHistory' = [sensorHistory EXCEPT
                   !["humedad"] = IF hum THEN SliceAppend(@, data["humedad"].v) ELSE @,
                   !["temperatura"] = IF tem THEN SliceAppend(@, data["temperatura"].v) ELSE @]
            /\ timeHistory' = IF hum THEN SliceAppend(timeHistory, Len(timeHistory))
                              ELSE timeHistory
            /\ histSrc' = [histSrc EXCEPT
                   !["humedad"] = IF hum THEN SliceAppend(@, msgCount') ELSE @,
                   !["temperatura"] = IF tem THEN SliceAppend(@, msgCount') ELSE @]
            /\ timeSrc' = IF hum THEN SliceAppend(timeSrc, Mark) ELSE timeSrc
            /\ ingested' = Ingest(data)
            /\ UNCHANGED status
    /\ UNCHANGED <<fixedVars, mounted, awaiting, exportVars, isLoading, loadingTimeouts, dataLog, isConnected, settingVars, connVars, now>>

\* The setInterval callback of the development build: a simulated reading
\* replaces the latest values and is appended to both windows.
MockInterval(h, t) ==
    /\ mounted
    /\ variant = "mid"
    /\ buildMode = "development"
    /\ CanHandle
    /\ msgCount' = msgCount + 1
    /\ LET mockData == Obj({<<"temperatura", Num(t)>>, <<"humedad", Num(h)>>,
                            <<"ph", Num(6)>>, <<"calidad_agua", Str(1)>>})
       IN /\ sensorData' = mockData
          /\ ingested' = Ingest(mockData)
          /\ lastMsg' = [kind |-> "object", obj |-> mockData]
    /\ sensorHistory' = [sensorHistory EXCEPT
           !["humedad"] = SliceAppend(@, h),
           !["temperatura"] = SliceAppend(@, t)]
    /\ timeHistory' = SliceAppend(timeHistory, Len(timeHistory))
    /\ histSrc' = [histSrc EXCEPT
           !["humedad"] = SliceAppend(@, msgCount'),
           !["temperatura"] = SliceAppend(@, msgCount')]
    /\ timeSrc' = SliceAppend(timeSrc, Mark)
    /\ isConnected' = TRUE
    /\ status' = "Conectado a MQTT (simulacion)"
    /\ UNCHANGED <<fixedVars, mounted, awaiting, exportVars, isLoading, loadingTimeouts, dataLog, settingVars, connVars, now>>

\* clientRef.current.on("connect", ...), of the effect and of reconnect()
ConnectMid(c) ==
    /\ variant = "mid"
    /\ clients[c].st = "connecting"
    /\ clients' = Subscribe(Connected(c))
    /\ status' = "Conectado a MQTT"
    /\ isConnected' = TRUE
    /\ UNCHANGED <<fixedVars, mounted, awaiting, exportVars, isLoading, loadingTimeouts, storeVars, ghostVars, settingVars, clientRef,
                   pendingStarts, reconnectTimeout, timers, now, msgVars>>

\* clientRef.current.on("offline", ...); a client made by reconnect() has no
\* such handler.
OfflineMid(c) ==
    /\ variant = "mid"
    /\ clients[c].st = "connected"
    /\ clients' = [clients EXCEPT ![c].st = "connecting"]
    /\ IF clients[c].handler = "initial"
       THEN /\ status' = "Desconectado del broker MQTT"
            /\ isConnected' = FALSE
       ELSE UNCHANGED <<status, isConnected>>
    /\ UNCHANGED <<fixedVars, mounted, awaiting, exportVars, isLoading, loadingTimeouts, storeVars, ghostVars, settingVars, clientRef,
                   pendingStarts, reconnectTimeout, timers, now, msgVars>>

\* clientRef.current.on("error", ...): a connection attempt failed
ErrorMid(c) ==
    /\ variant = "mid"
    /\ clients[c].st = "connecting"
    /\ clients[c].handler = "initial"
    /\ status' = "Error de conexion"
    /\ isConnected' = FALSE
    /\ UNCHANGED <<fixedVars, mounted, awaiting, exportVars, isLoading, loadingTimeouts, storeVars, ghostVars, settingVars, connVars, now, msgVars>>

\* reconnect(), from the reconnect button (rendered once the loading screen
\* is gone): ends the current client and schedules the delayed start
ReconnectMid ==
    /\ mounted
    /\ variant = "mid"
    /\ ~isLoading
    /\ CanStart
    /\ status' = "Reconectando..."
    /\ clients' = EndCurrent
    /\ pendingStarts' = Append(pendingStarts, NoClosure)
    /\ UNCHANGED <<fixedVars, mounted, awaiting, exportVars, isLoading, loadingTimeouts, storeVars, ghostVars, isConnected, settingVars, clientRef,
                   reconnectTimeout, timers, now, msgVars>>

\* the setTimeout callback of reconnect(): a client with a connect handler only
DelayedStartMid ==
    /\ variant = "mid"
    /\ pendingStarts # << >>
    /\ pendingStarts' = Tail(pendingStarts)
    /\ clients' = Append(clients, Client("reconnect", NoClosure))
    /\ clientRef' = Len(clients) + 1
    /\ UNCHANGED <<fixedVars, mounted, awaiting, exportVars, isLoading, loadingTimeouts, storeVars, ghostVars, status, isConnected, settingVars,
                   reconnectTimeout, timers, now, msgVars>>

NextMid ==
    \/ \E c \in DOMAIN clients : \E p \in SimpleWire : MessageMid(c, p)
    \/ \E h \in {40} : \E t \in {25} : MockInterval(h, t)
    \/ \E c \in DOMAIN clients : ConnectMid(c)
    \/ \E c \in DOMAIN clients : OfflineMid(c)
    \/ \E c \in DOMAIN clients : ErrorMid(c)
    \/ ReconnectMid
    \/ DelayedStartMid

----------------------------------------------------------------------------
(* src/greenhouse-monitor-web/app/page.tsx and
   src/unnamed/part_002, GreenSenseMonitor *)

\* waterLevelToPercent: Math.min(Math.max(Math.round((level / 1023) * 100), 0), 100);
\* Math.round rounds to the nearest integer, and no level is a tie.
waterLevelToPercent(level) ==
    Min(Max((200 * level + 1023) \div 2046, 0), 100)

\* The HH:MM:SS label of a clock reading, as the number HHMMSS: two such
\* labels compare as their strings do.
TimeLabel(t) == ((t \div 3600) % 24) * 10000 + ((t \div 60) % 60) * 100 + (t % 60)

\* What the sensorHistory updater pushes for metric m.
Pushed(m, x) == IF m = "water_level" THEN waterLevelToPercent(x) ELSE x

\* One run of the setSensorHistory updater on the arrays of prev: for every
\* metric of ms, shift when the window is full, then push its entry of vals.
HistoryUpdater(prev, ms, vals, n) ==
    [m \in Metrics |-> IF m \in ms THEN ShiftPush(prev[m], vals[m], n) ELSE prev[m]]

\* The updater copies the object of prev but shifts and pushes the arrays of
\* prev themselves. React StrictMode calls an updater twice on the same prev
\* in development, so there the second call works on the arrays the first
\* call has already pushed to.
SetSensorHistory(prev, ms, vals, n) ==
    IF buildMode = "development"
    THEN HistoryUpdater(HistoryUpdater(prev, ms, vals, n), ms, vals, n)
    ELSE HistoryUpdater(prev, ms, vals, n)

\* "Error al procesar datos: " + error.message
ProcessingError(p) ==
    IF ParseThrows(p) THEN "Error al procesar datos: SyntaxError"
    ELSE "Error al procesar datos: TypeError"

\* The message handler registered by the effect (full) and by connectMQTT
\* (cfg); n is TIEMPO_MAX, or the chartTimespan the handler closed over.
HandleMessage(p, n) ==
    IF ParseThrows(p) \/ WriteThrows(p)
    THEN /\ status' = ProcessingError(p)
         /\ UNCHANGED <<storeVars, ghostVars, isLoading>>
    ELSE LET data == [p.obj EXCEPT !["timestamp"] = Num(now)]
             vals == [m \in Metrics |-> Pushed(m, data[m].v)]
             ids == [m \in Metrics |-> msgCount']
         IN
         /\ sensorData' = Spread(sensorData, data)
         /\ dataLog' = Append(dataLog, data)
         /\ timeHistory' = ShiftPush(timeHistory, TimeLabel(now), n)
         /\ sensorHistory' = SetSensorHistory(sensorHistory, NumericMetrics(data), vals, n)
         /\ ingested' = Ingest(data)
         /\ histSrc' = SetSensorHistory(histSrc, NumericMetrics(data), ids, n)
         /\ timeSrc' = ShiftPush(timeSrc, Mark, n)
         /\ isLoading' = FALSE
         /\ UNCHANGED status

\* clientRef.current.on("message", ...) of the effect
MessageFull(c, p) ==
    /\ mounted
    /\ variant = "full"
    /\ Receives(c)
    /\ clients[c].handler = "initial"
    /\ CanHandle
    /\ msgCount' = msgCount + 1
    /\ lastMsg' = p
    /\ HandleMessage(p, TIEMPO_MAX)
    /\ UNCHANGED <<fixedVars, mounted, awaiting, exportVars, loadingTimeouts, isConnected, settingVars, connVars, now>>

\* clientRef.current.on("message", ...) of reconnect(): latest values and
\* log only, the record as parsed
MessageFullReconnect(c, p) ==
    /\ mounted
    /\ variant = "full"
    /\ Receives(c)
    /\ clients[c].handler = "reconnect"
    /\ CanHandle
    /\ msgCount' = msgCount + 1
    /\ lastMsg' = p
    /\ IF ParseThrows(p)
       THEN UNCHANGED <<sensorData, dataLog>>
       ELSE /\ sensorData' = Spread(sensorData, p.obj)
            /\ dataLog' = Append(dataLog, p.obj)
    /\ ingested' = IF ParseThrows(p) THEN ingested ELSE Ingest(p.obj)
    /\ UNCHANGED <<fixedVars, mounted, awaiting, exportVars, isLoading, loadingTimeouts, sensorHistory, timeHistory, histSrc, timeSrc, status,
                   isConnected, settingVars, connVars, now>>

\* clientRef.current.on("connect", ...), of the effect and of reconnect()
ConnectFull(c) ==
    /\ variant = "full"
    /\ clients[c].st = "connecting"
    /\ clients' = Subscribe(Connected(c))
    /\ status' = "Conectado a MQTT"
    /\ isConnected' = TRUE
    /\ UNCHANGED <<fixedVars, mounted, awaiting, exportVars, isLoading, loadingTimeouts, storeVars, ghostVars, settingVars, clientRef,
                   pendingStarts, reconnectTimeout, timers, now, msgVars>>

\* clientRef.current.on("offline", ...); a client made by reconnect() has no
\* such handler.
OfflineFull(c) ==
    /\ variant = "full"
    /\ clients[c].st = "connected"
    /\ clients' = [clients EXCEPT ![c].st = "connecting"]
    /\ IF clients[c].handler = "initial"
       THEN /\ status' = "Desconectado del broker MQTT"
            /\ isConnected' = FALSE
       ELSE UNCHANGED <<status, isConnected>>
    /\ UNCHANGED <<fixedVars, mounted, awaiting, exportVars, isLoading, loadingTimeouts, storeVars, ghostVars, settingVars, clientRef,
                   pendingStarts, reconnectTimeout, timers, now, msgVars>>

\* clientRef.current.on("error", ...): a connection attempt failed
ErrorFull(c) ==
    /\ variant = "full"
    /\ clients[c].st = "connecting"
    /\ clients[c].handler = "initial"
    /\ status' = "Error de conexion"
    /\ isConnected' = FALSE
    /\ UNCHANGED <<fixedVars, mounted, awaiting, exportVars, isLoading, loadingTimeouts, storeVars, ghostVars, settingVars, connVars, now, msgVars>>

\* reconnect(), from the reconnect button (rendered once the loading screen
\* is gone): ends the current client and schedules the delayed start
ReconnectFull ==
    /\ mounted
    /\ variant = "full"
    /\ ~isLoading
    /\ CanStart
    /\ status' = "Reconectando..."
    /\ clients' = EndCurrent
    /\ pendingStarts' = Append(pendingStarts, NoClosure)
    /\ UNCHANGED <<fixedVars, mounted, awaiting, exportVars, isLoading, loadingTimeouts, storeVars, ghostVars, isConnected, settingVars, clientRef,
                   reconnectTimeout, timers, now, msgVars>>

\* the setTimeout callback of reconnect()
DelayedStartFull ==
    /\ variant = "full"
    /\ pendingStarts # << >>
    /\ pendingStarts' = Tail(pendingStarts)
    /\ clients' = Append(clients, Client("reconnect", NoClosure))
    /\ clientRef' = Len(clients) + 1
    /\ UNCHANGED <<fixedVars, mounted, awaiting, exportVars, isLoading, loadingTimeouts, storeVars, ghostVars, status, isConnected, settingVars,
                   reconnectTimeout, timers, now, msgVars>>

\* A second passes. The clock is read for the time labels of the full and
\* cfg components and for the timers that are due.
Tick ==
    /\ mounted
    /\ variant \in {"full", "cfg"} \/ loadingTimeouts # << >>
    /\ CanHandle
    /\ now' = now + 1
    /\ UNCHANGED <<fixedVars, mounted, awaiting, exportVars, isLoading, loadingTimeouts, storeVars, ghostVars, status, isConnected, settingVars,
                   connVars, msgVars>>

NextFull ==
    \/ \E c \in DOMAIN clients : \E p \in FullWire : MessageFull(c, p)
    \/ \E c \in DOMAIN clients : \E p \in FullWire : MessageFullReconnect(c, p)
    \/ \E c \in DOMAIN clients : ConnectFull(c)
    \/ \E c \in DOMAIN clients : OfflineFull(c)
    \/ \E c \in DOMAIN clients : ErrorFull(c)
    \/ ReconnectFull
    \/ DelayedStartFull

----------------------------------------------------------------------------
(* src/unnamed/part_002, GreenSenseMonitor *)

\* The options of the chart interval select: 10, 30, 60 and 120 points around
\* the default of TIEMPO_MAX = 30; here one below the default and one above.
TimespanOptions == {TIEMPO_MAX - 1, TIEMPO_MAX, TIEMPO_MAX + 1}

\* The closures of the latest render: what a click on the reconnect button runs.
LatestRender ==
    [span |-> chartTimespan, auto |-> autoRefresh, loading |-> isLoading,
     connected |-> isConnected]

\* clientRef.current.on("message", ...) of connectMQTT: the handler reads the
\* chartTimespan of the render that called connectMQTT.
MessageCfg(c, p) ==
    /\ mounted
    /\ variant = "cfg"
    /\ Receives(c)
    /\ CanHandle
    /\ msgCount' = msgCount + 1
    /\ lastMsg' = p
    /\ HandleMessage(p, clients[c].span)
    /\ UNCHANGED <<fixedVars, mounted, awaiting, exportVars, loadingTimeouts, isConnected, settingVars, connVars, now>>

\* clientRef.current.on("connect", ...)
ConnectCfg(c) ==
    /\ variant = "cfg"
    /\ clients[c].st = "connecting"
    /\ clients' = Subscribe(Connected(c))
    /\ status' = "Conectado a MQTT"
    /\ isConnected' = TRUE
    /\ UNCHANGED <<fixedVars, mounted, awaiting, exportVars, isLoading, loadingTimeouts, storeVars, ghostVars, settingVars, clientRef,
                   pendingStarts, reconnectTimeout, timers, now, msgVars>>

\* Mutant of ShouldSchedule: the test of reconnectTimeoutRef is left out.
ScheduleAlways(c) == clients[c].auto

\* autoRefresh && !reconnectTimeoutRef.current, with the autoRefresh the
\* offline handler of client c closed over
ShouldSchedule(c) == clients[c].auto /\ ~reconnectTimeout.pending

\* clientRef.current.on("error", ...): a connection attempt failed
ErrorCfg(c) ==
    /\ variant = "cfg"
    /\ clients[c].st = "connecting"
    /\ status' = "Error de conexion"
    /\ isConnected' = FALSE
    /\ UNCHANGED <<fixedVars, mounted, awaiting, exportVars, isLoading, loadingTimeouts, storeVars, ghostVars, settingVars, connVars, now, msgVars>>

\* clientRef.current.on("offline", ...): with the autoRefresh the handler
\* closed over and no timer in reconnectTimeoutRef, a reconnect is scheduled
\* (setTimeout 5000) that will run the reconnect() of the handler's render.
\* skipped records on a pending timer that an offline event found it pending.
OfflineCfg(c) ==
    /\ variant = "cfg"
    /\ clients[c].st = "connected"
    /\ clients' = [clients EXCEPT ![c].st = "connecting"]
    /\ status' = "Desconectado del broker MQTT"
    /\ isConnected' = FALSE
    /\ ShouldSchedule(c) => CanHandle
    /\ IF ShouldSchedule(c)
       THEN /\ timers' = Append(timers, [render |-> RenderOf(c), skipped |-> FALSE])
            /\ reconnectTimeout' = [pending |-> TRUE]
       ELSE /\ timers' = [i \in DOMAIN timers |->
                             [timers[i] EXCEPT !.skipped = @ \/ clients[c].auto]]
            /\ UNCHANGED reconnectTimeout
    /\ awaiting' = (awaiting \/ autoRefresh)
    /\ UNCHANGED <<fixedVars, mounted, exportVars, isLoading, loadingTimeouts, storeVars, ghostVars, settingVars, clientRef,
                   pendingStarts, now, msgVars>>

\* Mutant of DoReconnect: reconnect() also empties the session log.
DoReconnectClearsLog(r) ==
    /\ status' = "Reconectando..."
    /\ clients' = EndCurrent
    /\ pendingStarts' = Append(pendingStarts, r)
    /\ dataLog' = << >>
    /\ UNCHANGED <<sensorData, sensorHistory, timeHistory>>

\* reconnect() of render r: ends the current client and schedules the
\* delayed connectMQTT() of that render; it touches no reading
DoReconnect(r) ==
    /\ status' = "Reconectando..."
    /\ clients' = EndCurrent
    /\ pendingStarts' = Append(pendingStarts, r)
    /\ UNCHANGED storeVars

\* a click on the reconnect button, which is rendered once the loading
\* screen is gone
ReconnectCfg ==
    /\ mounted
    /\ variant = "cfg"
    /\ ~isLoading
    /\ CanStart
    /\ DoReconnect(LatestRender)
    /\ UNCHANGED <<fixedVars, mounted, awaiting, exportVars, isLoading, loadingTimeouts, ghostVars, isConnected, settingVars, clientRef,
                   reconnectTimeout, timers, now, msgVars>>

\* the timer callback of the offline handler: reconnect(), then
\* reconnectTimeoutRef.current = null
ReconnectTimeoutFires(i) ==
    /\ variant = "cfg"
    /\ i \in DOMAIN timers
    /\ TimerCanFire
    /\ DoReconnect(timers[i].render)
    /\ timers' = SubSeq(timers, 1, i - 1) \o SubSeq(timers, i + 1, Len(timers))
    /\ reconnectTimeout' = NoTimer
    /\ UNCHANGED <<fixedVars, mounted, awaiting, exportVars, isLoading, loadingTimeouts, ghostVars, isConnected, settingVars, clientRef,
                   now, msgVars>>

\* the setTimeout callback of reconnect(): connectMQTT() of the render that
\* reconnect() belonged to
DelayedStartCfg ==
    /\ variant = "cfg"
    /\ pendingStarts # << >>
    /\ pendingStarts' = Tail(pendingStarts)
    /\ clients' = Append(clients, Client("initial", Head(pendingStarts)))
    /\ clientRef' = Len(clients) + 1
    /\ loadingTimeouts' = Append(loadingTimeouts, LoadingClosure(Head(pendingStarts), now))
    /\ awaiting' = FALSE
    /\ UNCHANGED <<fixedVars, mounted, exportVars, isLoading, storeVars, ghostVars, status, isConnected, settingVars,
                   reconnectTimeout, timers, now, msgVars>>

\* onChange of the chart interval select
SetChartTimespan(n) ==
    /\ mounted
    /\ variant = "cfg"
    /\ ~isLoading
    /\ n # chartTimespan
    /\ CanHandle
    /\ chartTimespan' = n
    /\ settingChanges' = settingChanges + 1
    /\ UNCHANGED <<fixedVars, mounted, awaiting, exportVars, isLoading, loadingTimeouts, storeVars, ghostVars, status, isConnected, autoRefresh,
                   connVars, now, msgVars>>

\* onClick of the auto-reconnect switch of the settings panel:
\* setAutoRefresh(!autoRefresh). The panel is rendered once the loading
\* screen is gone. The switch has two positions: it needs no bound.
ToggleAutoRefresh ==
    /\ mounted
    /\ variant = "cfg"
    /\ ~isLoading
    /\ autoRefresh' = ~autoRefresh
    /\ UNCHANGED <<fixedVars, mounted, awaiting, exportVars, isLoading, loadingTimeouts, storeVars, ghostVars, status, isConnected,
                   chartTimespan, settingChanges, connVars, now, msgVars>>

NextCfg ==
    \/ \E c \in DOMAIN clients : \E p \in FullWire : MessageCfg(c, p)
    \/ \E c \in DOMAIN clients : ConnectCfg(c)
    \/ \E c \in DOMAIN clients : OfflineCfg(c)
    \/ ReconnectCfg
    \/ \E i \in DOMAIN timers : ReconnectTimeoutFires(i)
    \/ \E c \in DOMAIN clients : ErrorCfg(c)
    \/ DelayedStartCfg
    \/ \E n \in TimespanOptions : SetChartTimespan(n)
    \/ ToggleAutoRefresh
    \/ Tick

----------------------------------------------------------------------------
(* Export of the session log *)

\* The columns of the CSV file whose keys the model carries (a column of
\* another key is one more cell of one line in every row). The cfg component
\* adds computed columns.
CsvHeaders ==
    <<"timestamp", "temperature", "humidity", "soil_moisture", "tds", "water_level">>
    \o (IF variant = "cfg" THEN <<"water_level_percent", "water_quality">> ELSE << >>)

\* data.timestamp as a condition: a number other than 0.
Truthy(x) == TypeOf(x) = "number" /\ x.v # 0

\* waterLevelToPercent(data.water_level) as written into a file: 0 for
\* undefined and for null, NaN (here a string of one line) for a string.
PercentOf(x) ==
    CASE TypeOf(x) = "number" -> Num(waterLevelToPercent(x.v))
      [] TypeOf(x) = "string" -> Str(1)
      [] OTHER -> Num(0)

\* The cell of column h in the row of record data: the ISO text of the
\* timestamp, a computed value, the value of the key, or the empty string.
Cell(h, data) ==
    CASE h = "timestamp" /\ Truthy(data["timestamp"]) -> Str(1)
      [] h = "water_level_percent" -> PercentOf(data["water_level"])
      [] h = "water_quality" -> Str(1)
      [] OTHER -> IF data[h] # Undefined THEN data[h] ELSE Str(1)

\* headers.map(...): the cells of the row of record data
Row(data) == [i \in DOMAIN CsvHeaders |-> Cell(CsvHeaders[i], data)]

\* The number of lines the text of a cell takes: row.join(",") writes a
\* string as it is, line breaks included.
LinesOf(cell) == IF TypeOf(cell) = "string" THEN cell.v ELSE 1

\* row.join(",") + "\n" as the lines of text it makes; a line is the
\* sequence of the cells, or pieces of cells, on it.
RECURSIVE RowLines(_)
RowLines(row) ==
    IF row = << >>
    THEN << << >> >>
    ELSE LET rest == RowLines(Tail(row))
             c == Head(row)
         IN  IF LinesOf(c) = 1
             THEN << <<c>> \o Head(rest) >> \o Tail(rest)
             ELSE [i \in 1..(LinesOf(c) - 1) |-> <<Str(1)>>]
                      \o << <<Str(1)>> \o Head(rest) >> \o Tail(rest)

\* dataLogRef.current.forEach(...): the lines of the file after the header
RECURSIVE CsvBody(_)
CsvBody(log) == IF log = << >> THEN << >> ELSE RowLines(Row(Head(log))) \o CsvBody(Tail(log))

\* The element of the JSON array for record data: the record, in the cfg
\* component with computed members added.
JsonElement(data) ==
    IF variant = "cfg"
    THEN [data |-> data, water_level_percent |-> PercentOf(data["water_level"])]
    ELSE [data |-> data, water_level_percent |-> Undefined]

\* JSON.stringify(dataLogRef.current) or of its map: the elements of the array
JsonBody(log) == [i \in DOMAIN log |-> JsonElement(log[i])]

Formats == {"csv", "json"}

\* The file exportData(format) makes of the log.
FileOf(format, log) ==
    IF format = "csv"
    THEN [format |-> "csv", header |-> CsvHeaders, body |-> CsvBody(log)]
    ELSE [format |-> "json", header |-> << >>, body |-> JsonBody(log)]

\* Mutant of LogIsEmpty: the test of the log's length is left out.
LogNeverEmpty(log) == FALSE

\* dataLogRef.current.length === 0
LogIsEmpty(log) == Len(log) = 0

\* A click on the export button: setShowExportPanel(!showExportPanel). The
\* button is rendered once the loading screen is gone.
ToggleExportPanel ==
    /\ mounted
    /\ variant \in {"full", "cfg"}
    /\ ~isLoading
    /\ CanHandle
    /\ showExportPanel' = ~showExportPanel
    /\ settingChanges' = settingChanges + 1
    /\ UNCHANGED <<fixedVars, mounted, awaiting, isLoading, loadingTimeouts, download, downloads, alerts,
                   storeVars, ghostVars, status, isConnected, chartTimespan, autoRefresh,
                   connVars, now, msgVars>>

\* exportData(format), from the CSV and JSON buttons of the export panel: a
\* notice when the log is empty, else a file of the log; the cfg component
\* then closes the panel.
ExportData(format) ==
    /\ mounted
    /\ variant \in {"full", "cfg"}
    /\ showExportPanel
    /\ CanHandle
    /\ IF LogIsEmpty(dataLog)
       THEN /\ alerts' = alerts + 1
            /\ UNCHANGED <<showExportPanel, download, downloads>>
       ELSE /\ download' = FileOf(format, dataLog)
            /\ downloads' = downloads + 1
            /\ showExportPanel' = (variant # "cfg")
            /\ UNCHANGED alerts
    /\ UNCHANGED <<fixedVars, mounted, awaiting, isLoading, loadingTimeouts, storeVars, ghostVars, status,
                   isConnected, settingVars, connVars, now, msgVars>>

NextExport ==
    \/ ToggleExportPanel
    \/ \E format \in Formats : ExportData(format)

----------------------------------------------------------------------------
(* The loading timers *)

\* The timeout callback of the mid component: setIsLoading(false)
LoadingTimeoutMid ==
    /\ mounted
    /\ variant = "mid"
    /\ loadingTimeouts # << >>
    /\ now >= Head(loadingTimeouts).due
    /\ loadingTimeouts' = Tail(loadingTimeouts)
    /\ isLoading' = FALSE
    /\ UNCHANGED <<fixedVars, mounted, awaiting, exportVars, storeVars, ghostVars, status, isConnected, settingVars,
                   connVars, now, msgVars>>

\* The timeout callback of the full and cfg components: with the isLoading
\* and isConnected of the render that set the timer,
\* if (isLoading) { setIsLoading(false); if (!isConnected) setStatus(...) }
LoadingTimeout(i) ==
    /\ mounted
    /\ variant \in {"full", "cfg"}
    /\ i \in DOMAIN loadingTimeouts
    /\ now >= loadingTimeouts[i].due
    /\ loadingTimeouts' = SubSeq(loadingTimeouts, 1, i - 1)
                              \o SubSeq(loadingTimeouts, i + 1, Len(loadingTimeouts))
    /\ isLoading' = IF loadingTimeouts[i].loading THEN FALSE ELSE isLoading
    /\ status' = IF loadingTimeouts[i].loading /\ ~loadingTimeouts[i].connected
                  THEN "No se recibieron datos. Verifica la conexion del Arduino."
                  ELSE status
    /\ UNCHANGED <<fixedVars, mounted, awaiting, exportVars, storeVars, ghostVars, isConnected, settingVars,
                   connVars, now, msgVars>>

NextLoading ==
    \/ LoadingTimeoutMid
    \/ \E i \in DOMAIN loadingTimeouts : LoadingTimeout(i)

----------------------------------------------------------------------------
(* Rendering of the latest values *)

\* The keys rendered as sensorData.<key>?.toFixed(d) (for the simple
\* component those of src/unnamed/part_003; src/app/page.tsx prints the
\* values as they are).
ToFixedKeys ==
    CASE variant \in {"simple", "mid"} -> {"temperatura", "humedad", "ph"}
      [] variant = "full" -> {"temperature", "humidity", "soil_moisture", "tds", "water_level"}
      [] variant = "cfg" -> {"temperature", "humidity", "soil_moisture", "tds"}

\* x?.toFixed(d) is undefined for null and undefined, a string for a number,
\* and throws a TypeError for a string, which has no toFixed. The values are
\* rendered once the loading screen is gone.
RenderThrows ==
    /\ ~isLoading
    /\ \E k \in ToFixedKeys : TypeOf(sensorData[k]) = "string"

Next == NextSimple \/ NextMid \/ NextFull \/ NextCfg \/ NextLoading \/ NextExport

----------------------------------------------------------------------------
(* Teardown *)

\* The cleanup of the mount effect runs: the component is unmounted. The
\* simple component, the mid component in production and the full component
\* end the client clientRef holds; the mid component in development only
\* clears its mock interval; the full component clears its loading timer; the
\* cfg component clears the timer reconnectTimeoutRef holds (leaving the ref
\* as it is) and ends the client clientRef holds. No cleanup clears the
\* delayed start of a reconnect(). An unmounted component renders nothing
\* and its setters have no effect: from here on the model follows the
\* transport clients and the timers that can still open one.
Teardown ==
    /\ mounted
    /\ mounted' = FALSE
    /\ clients' = IF variant = "mid" /\ buildMode = "development"
                  THEN clients
                  ELSE EndCurrent
    /\ timers' = IF reconnectTimeout.pending THEN << >> ELSE timers
    /\ loadingTimeouts' = IF variant = "full" THEN << >> ELSE loadingTimeouts
    /\ UNCHANGED <<variant, buildMode, wire, awaiting, exportVars, isLoading, storeVars,
                   ghostVars, status, isConnected, settingVars, clientRef,
                   pendingStarts, reconnectTimeout, now, msgVars>>

NextTeardown == Next \/ Teardown

Spec == Init /\ [][Next]_vars

\* The same sessions on a topic that carries any JSON text.
SpecAnyJson == InitAnyJson /\ [][Next]_vars

\* Time passes, and a timer that is due fires: the callbacks of setTimeout
\* and setInterval run, whatever else happens. Nothing obliges the broker,
\* the sensor node or the user to act.
TimersFire ==
    /\ WF_vars(Tick)
    /\ WF_vars(\E h \in {40} : \E t \in {25} : MockInterval(h, t))
    /\ WF_vars(\E i \in DOMAIN timers : ReconnectTimeoutFires(i))
    /\ WF_vars(DelayedStartMid \/ DelayedStartFull \/ DelayedStartCfg)
    /\ WF_vars(NextLoading)

\* The sessions that can end in a teardown of the component.
SpecTeardown == Init /\ [][NextTeardown]_vars

\* The sessions in which the timers fire.
SpecTimers == Init /\ [][Next]_vars /\ TimersFire

----------------------------------------------------------------------------
(* Properties *)

IsSorted(s) == \A i, j \in DOMAIN s : i < j => s[i] <= s[j]

\* C1: with the fixed window length N = TIEMPO_MAX (slice-based append of the
\* simple and mid components, shift/push append of the full component), every
\* window has at most N entries, and once more than N numeric values have
\* been handled for a metric its window is exactly the last N of them in
\* arrival order.
C1_BoundedFifo ==
    variant \in {"simple", "mid", "full"} =>
        \A m \in Charted :
            /\ Len(sensorHistory[m]) <= TIEMPO_MAX
            /\ Len(ingested[m]) > TIEMPO_MAX =>
                   sensorHistory[m] = LastN(ingested[m], TIEMPO_MAX)

\* The part of C1 that holds of every component: no window and no label
\* sequence of a fixed-length component is ever longer than TIEMPO_MAX.
C1_LengthBound ==
    variant \in {"simple", "mid", "full"} =>
        /\ Len(timeHistory) <= TIEMPO_MAX
        /\ \A m \in Charted : Len(sensorHistory[m]) <= TIEMPO_MAX

\* C2: every charted series is as long as the time-label sequence, and the
\* value at position i of a series comes from the message that produced
\* time label i.
C2_SeriesAligned ==
    \A m \in Charted :
        /\ Len(sensorHistory[m]) = Len(timeHistory)
        /\ \A i \in DOMAIN histSrc[m] :
               i \in DOMAIN timeSrc /\ histSrc[m][i] = timeSrc[i].msg

\* C3: every decoded message adds exactly one time label, whichever metrics
\* it contains: the newest label comes from the last decoded message, and no
\* two labels come from the same message.
C3_OneLabelPerMessage ==
    lastMsg.kind = "object" =>
        /\ timeSrc # << >>
        /\ timeSrc[Len(timeSrc)].msg = msgCount
        /\ \A i, j \in DOMAIN timeSrc : i < j => timeSrc[i].msg < timeSrc[j].msg

\* C4: in the component with the configurable window length, every window
\* and the time-label sequence have at most chartTimespan entries, also
\* after chartTimespan is changed.
C4_WithinConfiguredLength ==
    variant = "cfg" =>
        /\ Len(timeHistory) <= chartTimespan
        /\ \A m \in Charted : Len(sensorHistory[m]) <= chartTimespan

\* C5: every message is handled with the currently configured chartTimespan
\* as the eviction bound, whether or not a reconnect happened since it was
\* changed.
C5_UsesConfiguredLength ==
    [][\A c \in DOMAIN clients : \A p \in FullPayloads :
           (MessageCfg(c, p) /\ p.kind = "object") =>
               timeHistory' = ShiftPush(timeHistory, TimeLabel(now), chartTimespan)]_vars

MessageStep == msgCount' = msgCount + 1 /\ lastMsg'.kind = "object"

\* C6: handling a message that lacks key k leaves the latest value of k and
\* the window of k as they were, and a key the message has becomes the
\* latest value of that key; so the latest value of k is always the value of
\* the most recent message that contained k. (timestamp is no metric: the
\* full and cfg handlers stamp every record.)
C6_MissingKeyUnchanged ==
    [][MessageStep =>
          \A k \in Keys \ {"timestamp"} :
              IF HasKey(lastMsg'.obj, k)
              THEN sensorData'[k] = lastMsg'.obj[k]
              ELSE /\ sensorData'[k] = sensorData[k]
                   /\ k \in Metrics => sensorHistory'[k] = sensorHistory[k]]_vars

\* C6 witness: the last message handled lacked a charted metric that has a
\* latest value and a non-empty window.
C6_Witness ==
    /\ lastMsg.kind = "object"
    /\ \E m \in Charted :
           /\ ~HasKey(lastMsg.obj, m)
           /\ HasKey(sensorData, m)
           /\ sensorHistory[m] # << >>

\* C7: handling a message whose value for a charted metric is not a number
\* makes that value the latest value of the metric and leaves the metric's
\* window as it was.
C7_NonNumberNotWindowed ==
    [][MessageStep =>
          \A m \in Charted :
              (HasKey(lastMsg'.obj, m) /\ TypeOf(lastMsg'.obj[m]) # "number") =>
                  /\ sensorData'[m] = lastMsg'.obj[m]
                  /\ sensorHistory'[m] = sensorHistory[m]]_vars

\* C7 witness: the last message handled had a string (or null) for a charted
\* metric whose window is not empty.
C7_Witness ==
    /\ lastMsg.kind = "object"
    /\ \E m \in Charted :
           /\ TypeOf(lastMsg.obj[m]) \in {"string", "object"}
           /\ sensorData[m] = lastMsg.obj[m]
           /\ sensorHistory[m] # << >>

\* C8: the window of every charted metric holds exactly the values that
\* arrived for it and were not evicted yet, as received: it is a suffix of
\* the values handled for the metric.
C8_WindowIsSuffixOfReceived ==
    \A m \in Charted :
        \E k \in 0..Len(ingested[m]) : sensorHistory[m] = LastN(ingested[m], k)

\* Two clock readings of the same calendar day.
SameDay(a, b) == a \div (24 * 3600) = b \div (24 * 3600)

\* C9 as stated: the time labels are in non-decreasing order from oldest to
\* newest, index labels and clock labels alike.
C9_LabelsNonDecreasing == IsSorted(timeHistory)

\* C9 amended: the labels are in arrival order; index labels are
\* non-decreasing, and two clock labels made on the same calendar day are in
\* non-decreasing order (an HH:MM:SS label starts again at 00:00:00 at
\* midnight).
C9_LabelsNonDecreasingWithinDay ==
    /\ Len(timeSrc) = Len(timeHistory)
    /\ \A i, j \in DOMAIN timeHistory :
           i < j =>
               /\ timeSrc[i].msg < timeSrc[j].msg
               /\ timeSrc[i].at <= timeSrc[j].at
               /\ (variant \in {"simple", "mid"} \/ SameDay(timeSrc[i].at, timeSrc[j].at))
                      => timeHistory[i] <= timeHistory[j]

\* C9 witness: a window of clock labels made at two different seconds of one
\* day.
C9_Witness ==
    /\ variant \in {"full", "cfg"}
    /\ \E i, j \in DOMAIN timeHistory :
           /\ i < j
           /\ timeSrc[i].at < timeSrc[j].at
           /\ SameDay(timeSrc[i].at, timeSrc[j].at)
           /\ timeHistory[i] < timeHistory[j]

ErrorStatus ==
    {"Error al procesar datos", "Error al procesar datos: SyntaxError",
     "Error al procesar datos: TypeError"}

\* C10: handling a payload that is not valid JSON sets an error status
\* message and leaves the latest values, every window, the time labels and
\* the session log unchanged.
C10_InvalidJsonOnlySetsStatus ==
    [][(msgCount' = msgCount + 1 /\ lastMsg'.kind = "invalid") =>
          /\ status' \in ErrorStatus
          /\ UNCHANGED <<sensorData, sensorHistory, timeHistory, dataLog>>]_vars

\* The part of C10 that holds of every handler: a payload that is not valid
\* JSON changes no latest value, window, time label or log record.
C10_InvalidJsonFrame ==
    [][(msgCount' = msgCount + 1 /\ lastMsg'.kind = "invalid") =>
          UNCHANGED <<sensorData, sensorHistory, timeHistory, dataLog>>]_vars

\* C11: handling a payload that is valid JSON but not an object (a number,
\* null, an array) sets an error status message and leaves the latest values,
\* every window, the time labels and the session log unchanged.
C11_NonObjectIsDecodeError ==
    [][(msgCount' = msgCount + 1 /\ lastMsg'.kind \in NonObjectKinds) =>
          /\ status' \in ErrorStatus
          /\ UNCHANGED <<sensorData, sensorHistory, timeHistory, dataLog>>]_vars

\* C12: no received payload makes the handler or the rendering of the latest
\* values throw: the rendering that follows a state never throws.
C12_NoUncaughtException == ~RenderThrows

\* C13: in the components that keep a session log, every decoded message
\* appends exactly one record at the end of the log and nothing else changes
\* the log: one record per message in arrival order, never fewer records than
\* before, whatever the window length, before and after reconnects.
C13_OneRecordPerMessage ==
    [][(variant \in {"full", "cfg"}) =>
          (IF MessageStep
           THEN /\ Len(dataLog') = Len(dataLog) + 1
                /\ SubSeq(dataLog', 1, Len(dataLog)) = dataLog
           ELSE dataLog' = dataLog)]_vars

\* C14: every record appended to the session log carries as its timestamp
\* the clock reading of its receipt, never a timestamp sent on the wire, on
\* the first connection and after a reconnect.
C14_ReceiptTimestamp ==
    [][Len(dataLog') > Len(dataLog) =>
          dataLog'[Len(dataLog')]["timestamp"] = Num(now)]_vars

\* An export was requested: it ended in a notice or in a file.
ExportRequest == downloads' + alerts' = downloads + alerts + 1

\* C15: an export request (CSV or JSON) while the session log is empty shows
\* the notice, produces no file and changes nothing else.
C15_EmptyExportSignalled ==
    [][(ExportRequest /\ dataLog = << >>) =>
          /\ alerts' = alerts + 1
          /\ UNCHANGED <<download, downloads, showExportPanel, storeVars, status,
                         isConnected, isLoading, settingVars, connVars>>]_vars

\* C15 witness: the notice was shown, no file was ever produced and the log
\* is empty.
C15_Witness == alerts > 0 /\ download = NoFile /\ dataLog = << >>

\* C16: an export over a log of K >= 1 records produces a file of exactly K
\* data rows after the header (CSV) or an array of exactly K elements (JSON),
\* in log order, and leaves the log unchanged.
C16_ExportHasOneRowPerRecord ==
    [][(downloads' = downloads + 1) =>
          /\ Len(dataLog) >= 1
          /\ dataLog' = dataLog
          /\ Len(download'.body) = Len(dataLog)
          /\ download'.format = "json" =>
                 \A i \in DOMAIN dataLog : download'.body[i].data = dataLog[i]]_vars

\* The connection of client c drops in this step (its offline event).
Drops(c) == clients[c].st = "connected" /\ clients'[c].st = "connecting"

\* Client c emits its connect event in this step.
Connects(c) == clients[c].st = "connecting" /\ clients'[c].st = "connected"

\* C17: when the connection of a client drops, on the first connection or on
\* one opened by a manual reconnect, the tracked state stops being Connected
\* (the flag is false and the status does not read connected), and it becomes
\* Connected again only by a connect event.
C17_NotConnectedAfterDrop ==
    [][/\ \A c \in DOMAIN clients :
              Drops(c) => (~isConnected' /\ status' # "Conectado a MQTT")
       /\ (isConnected' /\ ~isConnected) => \E c \in DOMAIN clients : Connects(c)]_vars

\* C18: every connect event of a client, the first one, one after the
\* library reconnected by itself and one after a manual reconnect, makes the
\* tracked state Connected and subscribes that client to the topic.
C18_ConnectSubscribes ==
    [][\A c \in DOMAIN clients :
           Connects(c) =>
               /\ status' = "Conectado a MQTT"
               /\ variant # "simple" => isConnected'
               /\ clients'[c].sub]_vars

\* C19: at most one reconnect timer of the offline handler is pending at any
\* time; an offline event that finds one pending sets no second one.
C19_OneReconnectTimer == Len(timers) <= 1

\* C19 witness: a reconnect timer is pending and an offline event found it
\* pending.
C19_Witness == \E i \in DOMAIN timers : timers[i].skipped

\* C20: a manual reconnect() cancels the pending reconnect timer: after the
\* click no timer set before it is left to fire.
C20_ManualReconnectCancelsTimer ==
    [][ReconnectCfg => timers' = << >>]_vars

\* C21: a connect event cancels the pending reconnect timer: a timer the
\* offline handler set never fires while the client clientRef holds is
\* connected, so it never ends a connected session.
C21_ConnectCancelsTimer ==
    [][\A i \in DOMAIN timers :
           ReconnectTimeoutFires(i) =>
               (clientRef = 0 \/ clients[clientRef].st # "connected")]_vars

\* C22: an offline event that occurs while auto-reconnect is disabled in the
\* settings sets no reconnect timer, and one that occurs while it is enabled
\* and no timer is pending sets one.
C22_TimerFollowsSetting ==
    [][\A c \in DOMAIN clients :
           OfflineCfg(c) =>
               /\ ~autoRefresh => timers' = timers
               /\ (autoRefresh /\ timers = << >>) => Len(timers') = 1]_vars

C24_OneLiveClient ==
    Cardinality({c \in DOMAIN clients : Live(c)}) <= 1

\* C25: a message delivered on a connection that a manual reconnect opened
\* is handled as on the first connection: it adds a time label, its numeric
\* values enter the windows, and its record enters the log with the clock
\* reading of its receipt.
C25_SameHandlingAfterReconnect ==
    [][\A c \in DOMAIN clients : \A p \in FullPayloads :
           (MessageFullReconnect(c, p) /\ p.kind = "object") =>
               LET data == [p.obj EXCEPT !["timestamp"] = Num(now)]
                   vals == [m \in Metrics |-> Pushed(m, data[m].v)]
               IN  /\ sensorData' = Spread(sensorData, data)
                   /\ dataLog' = Append(dataLog, data)
                   /\ timeHistory' = ShiftPush(timeHistory, TimeLabel(now), TIEMPO_MAX)
                   /\ sensorHistory' =
                          SetSensorHistory(sensorHistory, NumericMetrics(data), vals, TIEMPO_MAX)]_vars

\* C26: the loading timer puts the notice in the status only when the client
\* is not connected at the moment it fires; when the client has connected
\* before, the timer leaves the status as it is.
C26_NoticeOnlyIfNotConnected ==
    [][\A i \in DOMAIN loadingTimeouts :
           (LoadingTimeout(i) /\ isConnected) => status' = status]_vars

\* C27: after the teardown of the component no transport client is open, and
\* none is opened later by a reconnect timer or by the delayed start of a
\* reconnect that was pending.
C27_NoClientAfterTeardown ==
    ~mounted => \A c \in DOMAIN clients : ~Live(c)

\* C28: the history updater is pure: however often it is evaluated for one
\* message, the windows after the message are those before it with each
\* numeric value of the message appended once.
C28_UpdaterAppendsOnce ==
    [][\A c \in DOMAIN clients : \A p \in FullPayloads :
           ((MessageFull(c, p) \/ MessageCfg(c, p)) /\ p.kind = "object") =>
               LET n == IF variant = "cfg" THEN clients[c].span ELSE TIEMPO_MAX
                   vals == [m \in Metrics |-> Pushed(m, p.obj[m].v)]
               IN  sensorHistory' =
                       HistoryUpdater(sensorHistory, NumericMetrics(p.obj), vals, n)]_vars

\* A step of a reconnect: reconnect() is called (by a click or by the
\* reconnect timer) or its delayed start opens the new client.
ReconnectStep ==
    \/ Len(pendingStarts') > Len(pendingStarts)
    \/ Len(clients') > Len(clients)

\* C29: a reconnect, manual or automatic, leaves the latest values, every
\* window, the time labels and the session log as they were.
C29_ReconnectKeepsReadings ==
    [][ReconnectStep => UNCHANGED <<sensorData, sensorHistory, timeHistory, dataLog>>]_vars

\* C29 witness: a reconnect has opened a new client while there were
\* readings in the windows and time labels (in the mid and full components
\* no handler of a reconnect's client adds any, so they were there before).
C29_Witness ==
    /\ variant \in {"mid", "full"}
    /\ Len(clients) > InitialClients
    /\ timeHistory # << >>
    /\ \E m \in Charted : sensorHistory[m] # << >>

\* C30: in every component with a loading screen and in every build mode the
\* loading state ends in the end, whether or not a message arrives or the
\* broker can be reached, as long as the timers fire; the session can end
\* first only with a loading timer still pending.
C30_LoadingEnds ==
    <>(~isLoading \/ (loadingTimeouts # << >> /\ ~CanHandle))

====
